---------------------------- MODULE Spec2Model ----------------------------
(***************************************************************************)
(* Webring navigation (src/lib/webRingNavigation.ts).                      *)
(*                                                                         *)
(* A JavaScript string is modelled as a sequence of tokens, each token an  *)
(* atomic piece of text ("https://", "www.", "a", ":8080", "/p", ...).     *)
(* Two strings are equal exactly when their token sequences are equal; the *)
(* token alphabet is chosen so that no text has two tokenisations.  The    *)
(* platform's URL parser (new URL(...)) is modelled on these sequences by  *)
(* what it does: it rejects text without a scheme, lower-cases the scheme  *)
(* and the host, drops the scheme's default port, rejects a host that ends *)
(* in a number without being an IPv4 address, and serialises the origin of *)
(* a non-special scheme as "null".                                         *)
(***************************************************************************)
EXTENDS Integers, Sequences, FiniteSets, TLC

\* ------------------------------------------------------------------ bounds

\* Longest list of sites the model enumerates.
MaxSites == 3
\* Most leading "www." labels the model puts in front of a host.
MaxWww == 2
\* How many times in a row normalizeOrigin is applied to its own output.
MaxApplications == 2

\* ------------------------------------------------------------- token text

\* http and https: the schemes with a tuple origin and a default port.
SpecialScheme == {"https://", "HTTPS://", "http://"}
\* A scheme that is not special but is followed by an authority.
AuthorityScheme == {"ssh://"}
\* A scheme followed by an opaque path.
OpaqueScheme == {"mailto:"}
WwwLabel == {"www.", "WWW."}
\* Host texts; "a", "A", "b", "c" stand for registrable names, "1.2.3.4" is an
\* IPv4 address.
HostName == {"a", "A", "b", "c", "1.2.3.4"}
PortToken == {":443", ":8080"}
PathToken == {"/p"}

\* String.prototype.toLowerCase on one token.
toLowerCase(tok) ==
  CASE tok = "HTTPS://" -> "https://"
    [] tok = "WWW." -> "www."
    [] tok = "A" -> "a"
    [] OTHER -> tok

\* String.prototype.toLowerCase on a string.
LowerStr(s) == [i \in 1..Len(s) |-> toLowerCase(s[i])]

\* ------------------------------------------------------------ new URL(s)

IsHostToken(t) == t \in WwwLabel \cup HostName

\* Number of leading tokens of r that belong to the host.
RECURSIVE HostSpan(_)
HostSpan(r) ==
  IF r = <<>> \/ ~IsHostToken(Head(r)) THEN 0 ELSE 1 + HostSpan(Tail(r))

\* The host parser: a non-empty host; a host whose last label is a number is
\* parsed as an IPv4 address, which fails when anything precedes the address.
ValidHost(h) == Len(h) > 0 /\ (h[Len(h)] = "1.2.3.4" => Len(h) = 1)

\* url.protocol of a scheme token.
Protocol(tok) ==
  CASE toLowerCase(tok) = "https://" -> "https:"
    [] toLowerCase(tok) = "http://" -> "http:"
    [] tok = "ssh://" -> "ssh:"
    [] OTHER -> tok

\* The port a scheme implies, which the parser drops from url.port.
DefaultPort(protocol) ==
  CASE protocol = "https:" -> ":443"
    [] protocol = "http:" -> ":80"
    [] OTHER -> ""

\* `${protocol}//` as text.
WithSlashes(protocol) ==
  CASE protocol = "https:" -> <<"https://">>
    [] protocol = "http:" -> <<"http://">>
    [] protocol = "ssh:" -> <<"ssh://">>
    [] OTHER -> <<protocol, "//">>

ParseFailure ==
  [ok |-> FALSE, protocol |-> "", hostname |-> <<>>, port |-> "", origin |-> <<>>]

\* new URL(s) for a special scheme (http, https): scheme, host, optional port,
\* optional path.
SpecialURL(s) ==
  LET rest == Tail(s)
      n == HostSpan(rest)
      host == SubSeq(rest, 1, n)
      after == SubSeq(rest, n + 1, Len(rest))
      hasPort == after # <<>> /\ Head(after) \in PortToken
      path == IF hasPort THEN Tail(after) ELSE after
      protocol == Protocol(s[1])
      port == IF hasPort /\ Head(after) # DefaultPort(protocol)
              THEN Head(after) ELSE ""
      hostname == LowerStr(host)
  IN IF ValidHost(host) /\ \A i \in 1..Len(path) : path[i] \in PathToken
     THEN [ok |-> TRUE, protocol |-> protocol, hostname |-> hostname,
           port |-> port,
           origin |-> WithSlashes(protocol) \o hostname
                      \o (IF port # "" THEN <<port>> ELSE <<>>)]
     ELSE ParseFailure

\* new URL(s) for a non-special scheme with an authority (ssh://): the host is
\* opaque (kept as written, not lower-cased, no IPv4 parsing) and may be empty
\* when no port follows; there is no default port; the origin is "null".
AuthorityURL(s) ==
  LET rest == Tail(s)
      n == HostSpan(rest)
      host == SubSeq(rest, 1, n)
      after == SubSeq(rest, n + 1, Len(rest))
      hasPort == after # <<>> /\ Head(after) \in PortToken
      path == IF hasPort THEN Tail(after) ELSE after
  IN IF (hasPort => host # <<>>) /\ \A i \in 1..Len(path) : path[i] \in PathToken
     THEN [ok |-> TRUE, protocol |-> Protocol(s[1]), hostname |-> host,
           port |-> IF hasPort THEN Head(after) ELSE "",
           origin |-> <<"null">>]
     ELSE ParseFailure

\* new URL(s) for a scheme without an authority of its own (mailto:): it has
\* no host, no port, and its origin serialises as "null".
OpaqueURL(s) ==
  [ok |-> TRUE, protocol |-> Protocol(s[1]), hostname |-> <<>>, port |-> "",
   origin |-> <<"null">>]

\* new URL(s): ok = FALSE stands for the TypeError the constructor throws.
URL(s) ==
  IF s = <<>> THEN ParseFailure
  ELSE IF s[1] \in SpecialScheme THEN SpecialURL(s)
  ELSE IF s[1] \in AuthorityScheme THEN AuthorityURL(s)
  ELSE IF s[1] \in OpaqueScheme THEN OpaqueURL(s)
  ELSE ParseFailure

\* ------------------------------------------------------------- normalizer

\* Mutant: the replace runs before the lower-casing, so "WWW." is kept.
normalizeHostname_ReplaceBeforeLower(hostname) ==
  IF hostname # <<>> /\ Head(hostname) = "www."
  THEN LowerStr(Tail(hostname)) ELSE LowerStr(hostname)

\* Mutant: the "www." label is not removed.
normalizeHostname_KeepWww(hostname) == LowerStr(hostname)

\* hostname.toLowerCase().replace(/^www\./, '')
normalizeHostname(hostname) ==
  LET lower == LowerStr(hostname)
  IN IF lower # <<>> /\ Head(lower) = "www." THEN Tail(lower) ELSE lower

\* origin.replace(/^(https?:\/\/)www\./i, '$1')
StripWwwAfterScheme(origin) ==
  IF Len(origin) >= 2 /\ toLowerCase(origin[1]) \in {"https://", "http://"}
     /\ toLowerCase(origin[2]) = "www."
  THEN <<origin[1]>> \o SubSeq(origin, 3, Len(origin))
  ELSE origin

normalizeOrigin(origin) ==
  LET url == URL(origin)
  IN IF url.ok
     THEN WithSlashes(url.protocol) \o normalizeHostname(url.hostname)
          \o (IF url.port # "" THEN <<url.port>> ELSE <<>>)
     ELSE StripWwwAfterScheme(origin)

\* ------------------------------------------------------ inputs (strings)

\* Runs of at most MaxWww "www." labels, in either letter case.
WwwRuns == UNION {[1..k -> WwwLabel] : k \in 0..MaxWww}

\* Hosts: a run of "www." labels, then a name or nothing.
Hosts ==
  {w \o n : w \in WwwRuns, n \in {<<>>} \cup {<<h>> : h \in HostName}} \ {<<>>}

\* What may follow the host: a port, a path, or text with a space in it (" x"),
\* which is valid nowhere in an authority.
Tails ==
  {<<>>, <<":443">>, <<":8080">>, <<"/p">>, <<":8080", "/p">>, <<" x">>,
   <<":8080", " x">>}

\* The strings normalizeOrigin is tried on: URLs and origins of the special
\* schemes (well-formed or not), host text without a scheme, the opaque
\* origin "null", a mailto: URL and plain text.
OriginInputs ==
  {<<s>> \o h \o t : s \in SpecialScheme \cup AuthorityScheme, h \in Hosts,
                      t \in Tails}
  \cup {h \o t : h \in Hosts, t \in {<<>>, <<"/p">>}}
  \cup {<<"null">>, <<"not a url">>, <<"mailto:", "x">>, <<"mailto:", "//">>,
        <<"https://">>, <<"ssh://">>, <<"ssh://", "/p">>}

\* ------------------------------------------------------------ navigation

\* The values of WebRingNavigation's fields: a string, null, or the undefined
\* an out-of-range array read gives.
StringValue(s) == [kind |-> "string", str |-> s]
NullValue == [kind |-> "null", str |-> <<>>]
UndefinedValue == [kind |-> "undefined", str |-> <<>>]

\* sites[index], for a zero-based index.
ElementAt(sites, index) ==
  IF index \in 0..(Len(sites) - 1) THEN StringValue(sites[index + 1])
  ELSE UndefinedValue

\* The callback given to findIndex: compare the normalized origins, and compare
\* the raw strings when either constructor throws.
SiteMatches(site, currentSite) ==
  LET siteUrl == URL(site)
      currentUrl == URL(currentSite)
  IN IF siteUrl.ok /\ currentUrl.ok
     THEN normalizeOrigin(siteUrl.origin) = normalizeOrigin(currentUrl.origin)
     ELSE site = currentSite

\* Array.prototype.findIndex, scanning from the zero-based index i upwards.
RECURSIVE findIndexFrom(_, _, _)
findIndexFrom(sites, currentSite, i) ==
  IF i >= Len(sites) THEN -1
  ELSE IF SiteMatches(sites[i + 1], currentSite) THEN i
  ELSE findIndexFrom(sites, currentSite, i + 1)

\* Mutant: findLastIndex instead of findIndex.
RECURSIVE findLastIndexFrom(_, _, _)
findLastIndexFrom(sites, currentSite, i) ==
  IF i < 0 THEN -1
  ELSE IF SiteMatches(sites[i + 1], currentSite) THEN i
  ELSE findLastIndexFrom(sites, currentSite, i - 1)

findCurrentSiteIndex_LastMatch(sites, currentSite) ==
  findLastIndexFrom(sites, currentSite, Len(sites) - 1)

findCurrentSiteIndex(sites, currentSite) == findIndexFrom(sites, currentSite, 0)

\* Mutant: from the hub, prev is one past the last index.
calculateNavigationIndices_HubOffByOne(currentIndex, sitesLength) ==
  IF currentIndex < 0
  THEN [prevIndex |-> sitesLength, nextIndex |-> 0]
  ELSE [prevIndex |-> IF currentIndex = 0 THEN sitesLength - 1
                      ELSE currentIndex - 1,
        nextIndex |-> IF currentIndex = sitesLength - 1 THEN 0
                      ELSE currentIndex + 1]

\* Mutant: next does not wrap at the last index.
calculateNavigationIndices_NoNextWrap(currentIndex, sitesLength) ==
  IF currentIndex < 0
  THEN [prevIndex |-> sitesLength - 1, nextIndex |-> 0]
  ELSE [prevIndex |-> IF currentIndex = 0 THEN sitesLength - 1
                      ELSE currentIndex - 1,
        nextIndex |-> currentIndex + 1]

\* Mutant: prev stops at the first index instead of wrapping to the last.
calculateNavigationIndices_PrevClamped(currentIndex, sitesLength) ==
  IF currentIndex < 0
  THEN [prevIndex |-> sitesLength - 1, nextIndex |-> 0]
  ELSE [prevIndex |-> IF currentIndex = 0 THEN 0 ELSE currentIndex - 1,
        nextIndex |-> IF currentIndex = sitesLength - 1 THEN 0
                      ELSE currentIndex + 1]

\* Mutant: from the hub, prev and next are exchanged.
calculateNavigationIndices_HubSwapped(currentIndex, sitesLength) ==
  IF currentIndex < 0
  THEN [prevIndex |-> 0, nextIndex |-> sitesLength - 1]
  ELSE [prevIndex |-> IF currentIndex = 0 THEN sitesLength - 1
                      ELSE currentIndex - 1,
        nextIndex |-> IF currentIndex = sitesLength - 1 THEN 0
                      ELSE currentIndex + 1]

calculateNavigationIndices(currentIndex, sitesLength) ==
  IF currentIndex < 0
  THEN [prevIndex |-> sitesLength - 1, nextIndex |-> 0]
  ELSE [prevIndex |-> IF currentIndex = 0 THEN sitesLength - 1
                      ELSE currentIndex - 1,
        nextIndex |-> IF currentIndex = sitesLength - 1 THEN 0
                      ELSE currentIndex + 1]

\* The optional argument currentSite: omitted, or a string (maybe empty).
Omitted == [given |-> FALSE, str |-> <<>>]
Given(s) == [given |-> TRUE, str |-> s]
\* if (currentSite): an omitted argument and the empty string are falsy.
Truthy(currentSite) == currentSite.given /\ currentSite.str # <<>>

\* The global window: not defined outside a browser; in one, its
\* location.origin is a string.
NoWindow == [defined |-> FALSE, origin |-> <<>>]
Window(o) == [defined |-> TRUE, origin |-> o]

\* The result of a call: prev and next, and beside them what the call did on
\* the way: the local currentIndex, the arguments findCurrentSiteIndex was
\* called with (finderArgs: none or one) and whether `typeof window` was
\* evaluated (windowRead).
\* return { prev: null, next: null }
EmptyRing ==
  [prev |-> NullValue, next |-> NullValue, currentIndex |-> -1,
   finderArgs |-> <<>>, windowRead |-> FALSE]

\* Mutant: the window's location is preferred to the argument.
NavigationFor_WindowFirst(sites, currentSite, win) ==
  LET finderArgs == IF win.defined THEN <<win.origin>>
                    ELSE IF Truthy(currentSite) THEN <<currentSite.str>>
                    ELSE <<>>
      currentIndex == IF finderArgs # <<>>
                      THEN findCurrentSiteIndex(sites, finderArgs[1])
                      ELSE -1
      indices == calculateNavigationIndices(currentIndex, Len(sites))
  IN [prev |-> ElementAt(sites, indices.prevIndex),
      next |-> ElementAt(sites, indices.nextIndex),
      currentIndex |-> currentIndex,
      finderArgs |-> finderArgs,
      windowRead |-> TRUE]

\* The body of calculateWebRingNavigation after the empty-list return.
NavigationFor(sites, currentSite, win) ==
  LET finderArgs == IF Truthy(currentSite) THEN <<currentSite.str>>
                    ELSE IF win.defined THEN <<win.origin>>
                    ELSE <<>>
      currentIndex == IF finderArgs # <<>>
                      THEN findCurrentSiteIndex(sites, finderArgs[1])
                      ELSE -1
      indices == calculateNavigationIndices(currentIndex, Len(sites))
  IN [prev |-> ElementAt(sites, indices.prevIndex),
      next |-> ElementAt(sites, indices.nextIndex),
      currentIndex |-> currentIndex,
      finderArgs |-> finderArgs,
      windowRead |-> ~Truthy(currentSite)]

\* Mutant: no early return for the empty list.
calculateWebRingNavigation_NoEmptyCheck(sites, currentSite, win) ==
  NavigationFor(sites, currentSite, win)

\* calculateWebRingNavigation(sites, currentSite) with the global window `win`.
calculateWebRingNavigation(sites, currentSite, win) ==
  IF Len(sites) = 0 THEN EmptyRing ELSE NavigationFor(sites, currentSite, win)

\* ------------------------------------------------------- inputs (calls)

\* The strings a site list is drawn from: the same site with and without
\* "www.", two other sites, text that is no URL and a mailto: URL.
SiteUniverse ==
  {<<"https://", "a">>, <<"https://", "www.", "a">>, <<"https://", "b">>,
   <<"https://", "c">>, <<"not a url">>, <<"mailto:", "x">>}

\* Current-site strings that are in no list: a site of the universe in another
\* letter case and with a path, on another scheme, on another port, with
\* "www." or with two of them, a URL that does not parse, and an ssh: URL.
VisitorOnly ==
  {<<"HTTPS://", "WWW.", "A", "/p">>, <<"http://", "a">>,
   <<"https://", "a", ":8080">>, <<"https://", "www.", "b">>,
   <<"https://", "www.", "www.", "a">>, <<"https://", "www.", "1.2.3.4">>,
   <<"ssh://", "a">>}

SiteLists == UNION {[1..n -> SiteUniverse] : n \in 0..MaxSites}

CurrentSiteArgs ==
  {Omitted, Given(<<>>)} \cup {Given(s) : s \in SiteUniverse \cup VisitorOnly}

Windows ==
  {NoWindow} \cup
  {Window(o) : o \in {<<"https://", "www.", "b">>, <<"null">>}}

\* The lists and current sites the ring is walked with.
RingUniverse ==
  {<<"https://", "a">>, <<"https://", "www.", "a">>, <<"http://", "a">>,
   <<"https://", "b">>, <<"https://", "c", "/p">>, <<"mailto:", "x">>}

RingLists == UNION {[1..n -> RingUniverse] : n \in 0..MaxSites}

\* ------------------------------------------------------------------ state

VARIABLES
  sites,        \* the site list of the call
  currentSite,  \* the optional argument of the call
  window,       \* the global window at the time of the call
  pc,           \* "ready" before the call, "done" after it, "norm" in SpecNorm
  nav,          \* what calculateWebRingNavigation returned and recorded
  trail,        \* the current sites of the calls so far, with the link taken
  norm          \* normalizeOrigin's input followed by its successive outputs

vars == <<sites, currentSite, window, pc, nav, trail, norm>>

NoCall ==
  [prev |-> UndefinedValue, next |-> UndefinedValue, currentIndex |-> -1,
   finderArgs |-> <<>>, windowRead |-> FALSE]

\* Any list, any argument, any window; nothing called yet.
Init ==
  /\ sites \in SiteLists
  /\ currentSite \in CurrentSiteArgs
  /\ window \in Windows
  /\ pc = "ready"
  /\ nav = NoCall
  /\ trail = <<>>
  /\ norm = <<>>

\* A page calls calculateWebRingNavigation(sites, currentSite).
Calculate ==
  /\ pc = "ready"
  /\ nav' = calculateWebRingNavigation(sites, currentSite, window)
  /\ trail' = <<[dir |-> "start", site |-> currentSite.str]>>
  /\ pc' = "done"
  /\ UNCHANGED <<sites, currentSite, window, norm>>

Next == Calculate

Spec == Init /\ [][Next]_vars

\* The visitor follows the returned next link: the function is called again
\* with that entry as the current site.
FollowNext ==
  /\ pc = "done"
  /\ nav.next.kind = "string"
  /\ Len(trail) <= Len(sites)
  /\ currentSite' = Given(nav.next.str)
  /\ nav' = calculateWebRingNavigation(sites, currentSite', window)
  /\ trail' = Append(trail, [dir |-> "next", site |-> nav.next.str])
  /\ UNCHANGED <<sites, window, pc, norm>>

\* The visitor follows the returned prev link.
FollowPrev ==
  /\ pc = "done"
  /\ nav.prev.kind = "string"
  /\ Len(trail) <= Len(sites)
  /\ currentSite' = Given(nav.prev.str)
  /\ nav' = calculateWebRingNavigation(sites, currentSite', window)
  /\ trail' = Append(trail, [dir |-> "prev", site |-> nav.prev.str])
  /\ UNCHANGED <<sites, window, pc, norm>>

InitRing ==
  /\ sites \in RingLists
  /\ currentSite \in {Omitted} \cup {Given(s) : s \in RingUniverse}
  /\ window = NoWindow
  /\ pc = "ready"
  /\ nav = NoCall
  /\ trail = <<>>
  /\ norm = <<>>

NextRing == Calculate \/ FollowNext \/ FollowPrev

SpecRing == InitRing /\ [][NextRing]_vars

InitNorm ==
  /\ norm \in {<<x>> : x \in OriginInputs}
  /\ sites = <<>>
  /\ currentSite = Omitted
  /\ window = NoWindow
  /\ pc = "norm"
  /\ nav = NoCall
  /\ trail = <<>>

\* One more application of normalizeOrigin, to the previous result.
ApplyNormalizeOrigin ==
  /\ pc = "norm"
  /\ Len(norm) <= MaxApplications
  /\ norm' = Append(norm, normalizeOrigin(norm[Len(norm)]))
  /\ UNCHANGED <<sites, currentSite, window, pc, nav, trail>>

NextNorm == ApplyNormalizeOrigin

SpecNorm == InitNorm /\ [][NextNorm]_vars

\* ----------------------------------------------------- claim vocabulary

Done == pc = "done"

NumSites == Len(sites)

\* The entries of the list, as a set.
Entries == {sites[i] : i \in 1..NumSites}

\* The entry at the zero-based position i, taken around the ring.
RingEntry(i) == StringValue(sites[((i + NumSites) % NumSites) + 1])

Parses(s) == URL(s).ok

\* The normalized origin of a string that parses as a URL.
NormalizedOriginOf(s) == normalizeOrigin(URL(s).origin)

\* An entry matches a current-site string: equal normalized origins when both
\* parse, equal raw strings when either does not.
EntryMatches(entry, cur) ==
  \/ Parses(entry) /\ Parses(cur)
     /\ NormalizedOriginOf(entry) = NormalizedOriginOf(cur)
  \/ (~Parses(entry) \/ ~Parses(cur)) /\ entry = cur

\* The effective current site of the call in the state, as a sequence of no or
\* one string: the argument if given and non-empty, else the window's origin.
Effective ==
  IF currentSite.given /\ currentSite.str # <<>> THEN <<currentSite.str>>
  ELSE IF window.defined THEN <<window.origin>>
  ELSE <<>>

\* The zero-based position i is the first whose entry matches cur.
FirstMatchAt(i, cur) ==
  /\ i \in 0..(NumSites - 1)
  /\ EntryMatches(sites[i + 1], cur)
  /\ \A j \in 0..(i - 1) : ~EntryMatches(sites[j + 1], cur)

NoEntryMatches(cur) == \A i \in 1..NumSites : ~EntryMatches(sites[i], cur)

StartsWithWww(hostname) == hostname # <<>> /\ toLowerCase(hostname[1]) = "www."

\* x and y parse, agree in scheme and port, and exactly one of their hosts is
\* the other with a "www." label in front.
WwwVariants(x, y) ==
  LET u == URL(x)
      v == URL(y)
      hu == LowerStr(u.hostname)
      hv == LowerStr(v.hostname)
  IN /\ u.ok /\ v.ok
     /\ u.protocol = v.protocol
     /\ u.port = v.port
     /\ \/ hu = <<"www.">> \o hv /\ ~StartsWithWww(hv)
        \/ hv = <<"www.">> \o hu /\ ~StartsWithWww(hu)

\* ------------------------------------------------------------------ claims

\* C1: for a non-empty list, whatever the argument and the window, prev and
\* next of the result are both strings and both entries of the list.
C1_PrevNextAreEntries ==
  (Done /\ NumSites > 0) =>
    /\ nav.prev.kind = "string" /\ nav.prev.str \in Entries
    /\ nav.next.kind = "string" /\ nav.next.str \in Entries

\* C1 witness: a call at the last of three entries, whose next wraps to the
\* first.
C1_Witness ==
  /\ Done /\ NumSites = 3 /\ nav.currentIndex = 2
  /\ nav.next = StringValue(sites[1])
  /\ sites[1] # sites[2] /\ sites[2] # sites[3]

\* C2 as stated: whenever the current site matches the entry at position i,
\* prev is the entry at i - 1 and next the entry at i + 1, around the ring.
C2_Original ==
  (Done /\ NumSites > 0 /\ Effective # <<>>) =>
    \A i \in 0..(NumSites - 1) :
      EntryMatches(sites[i + 1], Effective[1]) =>
        nav.prev = RingEntry(i - 1) /\ nav.next = RingEntry(i + 1)

\* C2 amended: when position i is the first whose entry matches the current
\* site, prev is the entry at i - 1 and next the entry at i + 1, around the
\* ring.
C2_NeighboursOfFirstMatch ==
  (Done /\ NumSites > 0 /\ Effective # <<>>) =>
    \A i \in 0..(NumSites - 1) :
      FirstMatchAt(i, Effective[1]) =>
        nav.prev = RingEntry(i - 1) /\ nav.next = RingEntry(i + 1)

\* C2 witness: the current site is the first of three distinct entries, so
\* prev wraps to the last.
C2_Witness ==
  /\ Done /\ NumSites = 3 /\ Effective # <<>>
  /\ FirstMatchAt(0, Effective[1])
  /\ nav.prev = StringValue(sites[3]) /\ nav.next = StringValue(sites[2])
  /\ sites[1] # sites[3] /\ sites[2] # sites[3]

\* C3: for a non-empty list, when the current site matches no entry (or there
\* is none: omitted argument and no window), prev is the last entry and next
\* the first; a current site that does not parse, with a list of entries that
\* all parse, is such a case.
C3_HubWhenNoMatch ==
  (Done /\ NumSites > 0) =>
    /\ (Effective = <<>> \/ NoEntryMatches(Effective[1])) =>
         /\ nav.prev = StringValue(sites[NumSites])
         /\ nav.next = StringValue(sites[1])
    /\ (/\ Effective # <<>>
        /\ ~Parses(Effective[1])
        /\ \A e \in Entries : Parses(e)) =>
         /\ nav.currentIndex = -1
         /\ nav.prev = StringValue(sites[NumSites])
         /\ nav.next = StringValue(sites[1])

\* C3 witness: "not a url" as the current site of three entries that parse.
C3_Witness ==
  /\ Done /\ NumSites = 3
  /\ currentSite = Given(<<"not a url">>)
  /\ \A e \in Entries : Parses(e)
  /\ sites[1] # sites[3]
  /\ nav.prev = StringValue(sites[3]) /\ nav.next = StringValue(sites[1])

\* C4: in a list of entries that all parse, an entry that differs from the
\* current site only by one leading "www." label (on either side, in any
\* letter case) matches it: the finder returns that entry's position, or an
\* earlier position if an earlier entry matches too.  With the list a, b, c
\* and the current site www.b, prev is a and next is c.
C4_WwwEquivalence ==
  (Done /\ NumSites > 0 /\ Effective # <<>> /\ \A e \in Entries : Parses(e)) =>
    /\ \A i \in 0..(NumSites - 1) :
         WwwVariants(sites[i + 1], Effective[1]) =>
           /\ nav.currentIndex \in 0..i
           /\ (\A j \in 0..(i - 1) : ~EntryMatches(sites[j + 1], Effective[1]))
                => nav.currentIndex = i
    /\ (/\ sites = <<(<<"https://", "a">>), (<<"https://", "b">>),
                     (<<"https://", "c">>)>>
        /\ Effective = <<(<<"https://", "www.", "b">>)>>) =>
         /\ nav.currentIndex = 1
         /\ nav.prev = StringValue(<<"https://", "a">>)
         /\ nav.next = StringValue(<<"https://", "c">>)

\* C4 witness: the list a, b, c called with the current site www.b.
C4_Witness ==
  /\ Done
  /\ sites = <<(<<"https://", "a">>), (<<"https://", "b">>),
               (<<"https://", "c">>)>>
  /\ currentSite = Given(<<"https://", "www.", "b">>)
  /\ nav.currentIndex = 1

\* C6: for the empty list prev and next are both null, whatever the argument
\* and the window, and neither the finder nor the window is consulted.
C6_EmptyListShortCircuit ==
  (Done /\ NumSites = 0) =>
    /\ nav.prev = NullValue /\ nav.next = NullValue
    /\ nav.finderArgs = <<>>
    /\ ~nav.windowRead

\* C6 witness: a call with the empty list, no argument and a window.
C6_Witness ==
  Done /\ NumSites = 0 /\ ~currentSite.given /\ window.defined

\* C7: for a list of one entry, prev and next are both that entry, whatever
\* the current site.
C7_SingleEntry ==
  (Done /\ NumSites = 1) =>
    nav.prev = StringValue(sites[1]) /\ nav.next = StringValue(sites[1])

\* C7 witness: a list of one entry called with that entry as the current
\* site.
C7_Witness ==
  /\ Done /\ NumSites = 1 /\ currentSite = Given(sites[1])
  /\ nav.currentIndex = 0

\* C8: the finder returns the smallest position whose entry matches the
\* current site, or -1 when no entry matches; prev and next are those of that
\* position.
C8_FirstMatchWins ==
  (Done /\ NumSites > 0 /\ nav.finderArgs # <<>>) =>
    LET cur == nav.finderArgs[1]
        idx == nav.currentIndex
    IN \/ idx = -1 /\ NoEntryMatches(cur)
       \/ /\ FirstMatchAt(idx, cur)
          /\ nav.prev = RingEntry(idx - 1)
          /\ nav.next = RingEntry(idx + 1)

\* C8 witness: the current site matches the second and the third entry, which
\* differ as strings; the second is used.
C8_Witness ==
  /\ Done /\ NumSites = 3 /\ nav.finderArgs # <<>>
  /\ nav.currentIndex = 1
  /\ EntryMatches(sites[3], nav.finderArgs[1])
  /\ sites[2] # sites[3]
  /\ nav.next = StringValue(sites[3])

\* C9: a given, non-empty argument is the current site, and the window then
\* has no influence on the result; an omitted or empty argument makes the
\* window's origin the current site when there is a window; with neither, the
\* position is -1.
C9_EffectiveCurrentSite ==
  (Done /\ NumSites > 0) =>
    /\ (currentSite.given /\ currentSite.str # <<>>) =>
         /\ nav.finderArgs = <<currentSite.str>>
         /\ ~nav.windowRead
         /\ \A w \in Windows :
              nav = calculateWebRingNavigation(sites, currentSite, w)
    /\ (~(currentSite.given /\ currentSite.str # <<>>) /\ window.defined) =>
         /\ nav.finderArgs = <<window.origin>>
         /\ \/ FirstMatchAt(nav.currentIndex, window.origin)
            \/ nav.currentIndex = -1 /\ NoEntryMatches(window.origin)
    /\ (~(currentSite.given /\ currentSite.str # <<>>) /\ ~window.defined) =>
         /\ nav.finderArgs = <<>>
         /\ nav.currentIndex = -1

\* C9 witness: the argument matches no entry while the window's origin matches
\* one, and the result is the hub's.
C9_Witness ==
  /\ Done /\ NumSites = 3
  /\ currentSite.given /\ currentSite.str # <<>> /\ window.defined
  /\ NoEntryMatches(currentSite.str)
  /\ ~NoEntryMatches(window.origin)
  /\ nav.currentIndex = -1
\* The number of "www." labels right after the scheme of x.
LeadingWww(x) ==
  IF x # <<>> /\ x[1] \in SpecialScheme \cup AuthorityScheme
  THEN Cardinality({k \in 2..Len(x) :
                      \A j \in 2..k : toLowerCase(x[j]) = "www."})
  ELSE 0

\* C5 as stated: normalizing a normalized origin changes nothing, for every
\* string.
C5_Original == \A k \in 2..(Len(norm) - 1) : norm[k + 1] = norm[k]

\* C5 amended: normalizing a normalized origin changes nothing for every
\* string with at most one "www." label after its scheme that parses as a URL
\* or, failing to parse, still fails to parse with that label removed.
C5_IdempotentUpToOneWww ==
  (/\ pc = "norm"
   /\ LeadingWww(norm[1]) <= 1
   /\ Parses(norm[1]) \/ ~Parses(StripWwwAfterScheme(norm[1]))) =>
    \A k \in 2..(Len(norm) - 1) : norm[k + 1] = norm[k]

\* C5 witness: a URL with one "WWW." label, a port and a path, normalized
\* twice to the same bare origin.
C5_Witness ==
  /\ pc = "norm" /\ Len(norm) >= 3
  /\ norm[1] = <<"HTTPS://", "WWW.", "A", ":8080", "/p">>
  /\ norm[2] = <<"https://", "a", ":8080">>
  /\ norm[3] = norm[2]

\* The entries parse and no two of them have the same normalized origin.
DistinctOrigins ==
  /\ \A e \in Entries : Parses(e)
  /\ \A i, j \in 1..NumSites :
       i # j => NormalizedOriginOf(sites[i]) # NormalizedOriginOf(sites[j])

\* The walk so far started at an entry and took only next links.
OnlyNext == \A k \in 2..Len(trail) : trail[k].dir = "next"

\* C10: in a list of entries that parse with pairwise distinct normalized
\* origins, a walk from an entry along next passes every entry once and is
\* back at its start after exactly as many steps as there are entries; and
\* from any entry, next then prev, or prev then next, leads back to it.
C10_RingClosure ==
  (/\ Done /\ NumSites > 0 /\ DistinctOrigins
   /\ trail[1].site \in Entries) =>
    /\ nav.prev.kind = "string" /\ nav.next.kind = "string"
    /\ \A k \in 1..Len(trail) : trail[k].site \in Entries
    /\ OnlyNext =>
         /\ \A j, k \in 2..Len(trail) : j # k => trail[j].site # trail[k].site
         /\ \A k \in 2..Len(trail) :
              trail[k].site = trail[1].site <=> k = NumSites + 1
         /\ Len(trail) = NumSites + 1 =>
              {trail[k].site : k \in 2..Len(trail)} = Entries
    /\ \A k \in 1..(Len(trail) - 2) :
         /\ (trail[k + 1].dir = "next" /\ trail[k + 2].dir = "prev")
              => trail[k + 2].site = trail[k].site
         /\ (trail[k + 1].dir = "prev" /\ trail[k + 2].dir = "next")
              => trail[k + 2].site = trail[k].site

\* C10 witness: three distinct sites walked once around along next, back at
\* the start.
C10_Witness ==
  /\ Done /\ NumSites = 3 /\ DistinctOrigins
  /\ trail[1].site \in Entries
  /\ OnlyNext
  /\ Len(trail) = 4
  /\ trail[4].site = trail[1].site
  /\ trail[2].site # trail[1].site /\ trail[3].site # trail[1].site

=============================================================================
